---------------------------- MODULE Spec2Model ----------------------------
(***************************************************************************)
(* Model of the Pinephone Lab Tool (src/main.py): the LabTool command      *)
(* shell, the USB gadget tree it builds under                              *)
(* /sys/kernel/config/usb_gadget/g1, the mass-storage LUN binding and the   *)
(* HID keyboard capture thread with its report encoder.                    *)
(*                                                                         *)
(* Two threads are modelled: the foreground thread (main -> LabTool() ->   *)
(* cmdloop -> do_* handlers, position mainpc) and the capture thread       *)
(* (keyboard_thread_func, position kbpc).  Kernel operations (open/write,  *)
(* makedirs, symlink, unlink) may raise: every such step has a succeeding  *)
(* and a failing outcome.  A succeeding write to a kernel attribute sets   *)
(* the attribute to the value the code writes.                             *)
(***************************************************************************)
EXTENDS Integers, Sequences, FiniteSets

(***************************************************************************)
(* Bounds of the model.                                                    *)
(***************************************************************************)
\* Largest code point the operator can type (chr(0) .. chr(MaxChar)).
MaxChar == 255
\* Largest number of controllers listed in /sys/class/udc.
MaxUDC == 1
\* Largest number of failing writes to /dev/hidg0 in one run.
MaxHidFail == 1

(***************************************************************************)
(* Characters.  A character is its code point (ord).  The classification   *)
(* operators are Python's str methods on the code points 0 .. 303.         *)
(***************************************************************************)
\* str.isupper() of a one-character string.
IsUpper(c) ==
    \/ c \in 65..90
    \/ c \in 192..214
    \/ c \in 216..222
    \/ c \in 256..303 /\ c % 2 = 0

\* str.isalpha() of a one-character string.
IsAlpha(c) ==
    \/ c \in 65..90
    \/ c \in 97..122
    \/ c \in {170, 181, 186}
    \/ c \in 192..214
    \/ c \in 216..246
    \/ c \in 248..303

\* ord(str.lower()) of a one-character string.
Lower(c) ==
    IF ~IsUpper(c) THEN c
    ELSE IF c < 256 THEN c + 32
    ELSE c + 1

\* key_chr in "1234567890" for a one-character key_chr.
IsDigit(c) == c \in 48..57

\* bytes of chr(cp).encode() (UTF-8), for cp < 2048.
Utf8(cp) ==
    IF cp < 128 THEN <<cp>>
    ELSE <<192 + (cp \div 64), 128 + (cp % 64)>>

\* str.encode() of a string given as the sequence of its code points.
RECURSIVE Encode(_)
Encode(s) ==
    IF s = <<>> THEN <<>>
    ELSE Utf8(Head(s)) \o Encode(Tail(s))

\* NULL_CHAR * n
Nulls(n) == [i \in 1..n |-> 0]


(***************************************************************************)
(* HID report encoder: send_key.  A report string is the sequence of the   *)
(* code points of its eight characters; [modifier, reserved, keycode, ...].*)
(***************************************************************************)
\* Mutant of UpperReport: the modifier byte is left zero.
UpperReportNoShift(c) == <<0, 0, Lower(c) - 93>> \o Nulls(5)

\* Shift + key for uppercase (line 303).
UpperReport(c) == <<32, 0, Lower(c) - 93>> \o Nulls(5)

\* Mutant of LowerReport: one trailing NULL_CHAR too few.
LowerReportShort(c) == Nulls(2) \o <<c - 93>> \o Nulls(4)

\* Regular key for lowercase (line 306).
LowerReport(c) == Nulls(2) \o <<c - 93>> \o Nulls(5)

\* Number keys (line 309).
DigitReport(c) == Nulls(2) \o <<c - 19>> \o Nulls(5)

\* Enter key (line 312).
EnterReport == Nulls(2) \o <<40>> \o Nulls(5)

\* Space key (line 315).
SpaceReport == Nulls(2) \o <<44>> \o Nulls(5)

\* The if/elif chain of send_key: the key-down report strings it passes to
\* write_hid_report for key_chr = chr(c); none when no branch matches.
KeyDownReports(c) ==
    IF IsAlpha(c)
    THEN IF IsUpper(c) THEN <<UpperReport(c)>> ELSE <<LowerReport(c)>>
    ELSE IF IsDigit(c) THEN <<DigitReport(c)>>
    ELSE IF c = 10 THEN <<EnterReport>>
    ELSE IF c = 32 THEN <<SpaceReport>>
    ELSE <<>>

\* Mutant of ReleaseReports: the release is sent only after a key-down.
ReleaseAfterKeyDownOnly(c) ==
    IF KeyDownReports(c) = <<>> THEN <<>> ELSE <<Nulls(8)>>

\* "Release all keys" (line 318): issued after the chain, whatever it did.
ReleaseReports(c) == <<Nulls(8)>>

\* All report strings send_key(chr(c)) passes to write_hid_report, in order.
SendKeyReports(c) == KeyDownReports(c) \o ReleaseReports(c)

(***************************************************************************)
(* Paths.  A path is the sequence of its components; an absolute path      *)
(* starts with the component "/".  The empty sequence is the empty string  *)
(* (and stands for None where the code tests truthiness).                  *)
(***************************************************************************)
None == <<>>

\* gadget_path (lines 42, 156).
GadgetPath == <<"/", "sys", "kernel", "config", "usb_gadget", "g1">>

\* The directory the tool is started in.
StartDir == <<"/", "abs", "path">>

\* Files present in the file system, besides the gadget tree.
ExistingFiles ==
    { <<"/", "abs", "path", "disk.img">>,
      <<"/", "srv", "other.iso">>,
      <<"/", "dev", "sda">> }

\* os.path.normpath of the components rest appended to the absolute path acc.
RECURSIVE Norm(_, _)
Norm(rest, acc) ==
    IF rest = <<>> THEN acc
    ELSE LET h == Head(rest) IN
         IF h = "." THEN Norm(Tail(rest), acc)
         ELSE IF h = ".."
              THEN Norm(Tail(rest),
                        IF Len(acc) > 1 THEN SubSeq(acc, 1, Len(acc) - 1) ELSE acc)
              ELSE Norm(Tail(rest), Append(acc, h))

\* os.path.abspath(p) with the current directory dir (line 119).
Abspath(p, dir) ==
    IF Head(p) = "/" THEN Norm(Tail(p), <<"/">>) ELSE Norm(p, dir)

\* os.path.exists(p) with the current directory dir (lines 115, 135).
PathExists(p, dir) == Abspath(p, dir) \in ExistingFiles

(***************************************************************************)
(* State.                                                                  *)
(***************************************************************************)
VARIABLES
    \* LabTool fields (lines 27-31)
    selected_iso, usb_gadget_configured, keyboard_active, emulating,
    \* the kernel: items of the g1 tree, the controller written to g1/UDC
    \* (0 = the empty string), functions/mass_storage.0/lun.0/file
    tree, UDC, lunfile,
    \* the environment of the run: os.geteuid() = 0, the number of entries
    \* of /sys/class/udc, the keystrokes the operator will type
    isRoot, numUDC, script,
    \* foreground thread: position, command being run, caller of
    \* cleanup_gadget, index of the step of configure_usb_gadget, last
    \* message printed (with the handler that printed it), current directory
    \* of the process
    mainpc, line, ret, cfgstep, out, cwd,
    \* capture thread: position (kbpc = "none": keyboard_thread is None),
    \* character read, terminal mode
    kbpc, char, tty,
    \* terminal input not yet read, number of script characters typed,
    \* reports passed to fd.write (encoded), reports /dev/hidg0 received,
    \* number of failed writes to /dev/hidg0
    stdin, typed, issued, hidg0, hidfails

session == <<selected_iso, usb_gadget_configured, keyboard_active, emulating>>
kernel == <<tree, UDC, lunfile>>
environ == <<isRoot, numUDC, script>>
mainv == <<mainpc, line, ret, cfgstep, out, cwd>>
kbdv == <<kbpc, char, tty>>
iov == <<stdin, typed, issued, hidg0, hidfails>>
vars == <<session, kernel, environ, mainv, kbdv, iov>>

\* self.keyboard_thread is not None
keyboard_thread == kbpc # "none"

(***************************************************************************)
(* The gadget tree.  Items are the directories, symlinks and attribute     *)
(* groups configure_usb_gadget creates, named in the order it creates them.*)
(***************************************************************************)
\* A configure_usb_gadget that binds the UDC as soon as the gadget directory
\* is there.
CfgStepsBindFirst == << "g1", "chdir", "udc" >>

\* Steps of configure_usb_gadget after its cleanup (lines 159-238).
CfgSteps ==
    << "g1",            \* os.makedirs(gadget_path)               159
       "chdir",         \* os.chdir(gadget_path)                  160
       "ids",           \* idVendor idProduct bcdDevice bcdUSB    163-170
       "strings",       \* os.makedirs("strings/0x409")           173
       "strings_attrs", \* serialnumber manufacturer product      174-179
       "hid",           \* os.makedirs("functions/hid.keyboard")  182
       "hid_attrs",     \* protocol subclass report_length        183-188
       "report_desc",   \* report_desc                            216-217
       "mass_storage",  \* os.makedirs("functions/mass_storage.0") 220
       "config",        \* os.makedirs("configs/c.1/strings/0x409") 223
       "config_attrs",  \* configuration MaxPower                 224-227
       "link_hid",      \* os.symlink(... hid.keyboard)           230-231
       "link_ms",       \* os.symlink(... mass_storage.0)         232-233
       "udc" >>         \* os.listdir("/sys/class/udc")[0] -> UDC 236-238

\* Directories created below g1: while one exists g1 is not empty.
ChildDirs == {"strings", "hid", "mass_storage", "config"}

\* The function symlinks in configs/c.1.
Links == {"link_hid", "link_ms"}

\* Every item of a completely configured tree.
FullTree == {CfgSteps[i] : i \in 1..Len(CfgSteps)} \ {"chdir", "udc"}

\* os.path.exists(gadget_path) (line 43)
GadgetExists == "g1" \in tree

\* A controller is attached: the gadget is live on the bus.
Bound == GadgetExists /\ UDC # 0

\* No kernel gadget object exists.
Absent == ~GadgetExists

(***************************************************************************)
(* Inputs.                                                                 *)
(***************************************************************************)
\* "Hi 1\n"
HiScript == <<72, 105, 32, 49, 10>>

\* What the operator types for the host while the capture thread runs.
Scripts == {<<72, 63>>}

\* Arguments given to the iso command.
IsoArgs ==
    { <<>>, <<"disk.img">>, <<"/", "srv", "other.iso">>, <<"missing.iso">> }

\* Command lines the operator enters at the prompt.
Commands ==
    [name : {"iso"}, arg : IsoArgs]
    \cup [name : {"emulate", "keyboard"}, arg : {<<>>, <<"start">>, <<"stop">>}]
    \cup [name : {"write"}, arg : {<<>>, <<"/", "dev", "sda">>}]
    \cup [name : {"status", "exit", "EOF"}, arg : {<<>>}]

NoLine == [name |-> "", arg |-> <<>>]

(***************************************************************************)
(* Start of the process: main() and LabTool.__init__.                      *)
(***************************************************************************)
Init ==
    /\ selected_iso = None
    /\ usb_gadget_configured = FALSE
    /\ keyboard_active = FALSE
    /\ emulating = FALSE
    /\ isRoot \in BOOLEAN
    /\ numUDC \in 0..MaxUDC
    /\ script \in Scripts
    \* the kernel may hold the gadget a previous run left behind
    /\ \E leftover \in BOOLEAN :
          /\ tree = IF leftover THEN FullTree ELSE {}
          /\ UDC = IF leftover /\ numUDC > 0 THEN 1 ELSE 0
    /\ lunfile = <<>>
    /\ mainpc = "main"
    /\ line = NoLine
    /\ ret = ""
    /\ cfgstep = 0
    /\ out = <<"", "">>
    /\ cwd = StartDir
    /\ kbpc = "none"
    /\ char = -1
    /\ tty = "cooked"
    /\ stdin = <<>>
    /\ typed = 0
    /\ issued = <<>>
    /\ hidg0 = <<>>
    /\ hidfails = 0

\* A main that constructs the session whoever runs it.
MainNeverRefuses == FALSE

\* if os.geteuid() != 0 (line 365): main prints and exits before the
\* session object is constructed.
MainRefuses == ~isRoot

\* main(): the root check, then LabTool() up to its call of cleanup_gadget.
Main ==
    /\ mainpc = "main"
    /\ IF MainRefuses
       THEN /\ mainpc' = "exited"
            /\ out' = <<"main", "This tool must be run as root">>
            /\ ret' = ret
       ELSE /\ mainpc' = "cl_exists"
            /\ ret' = "init"
            /\ out' = out
    /\ UNCHANGED <<session, kernel, environ, line, cfgstep, cwd, kbdv, iov>>

(***************************************************************************)
(* cleanup_gadget (lines 39-63), called from __init__, from                *)
(* configure_usb_gadget and from do_exit (ret names the caller).           *)
(***************************************************************************)
\* The command line of the handler that is running: onecmd's argument is
\* gone once the handler has returned to the prompt.
LineNext == IF mainpc' = "prompt" THEN NoLine ELSE line

\* The caller of cleanup_gadget, while it runs.
RetNext == IF mainpc' \in {"cl_udc", "cl_unlink", "cl_rmdir", "cl_modprobe"} THEN ret ELSE ""

\* Where the foreground thread continues when cleanup_gadget returns.
AfterCleanup ==
    IF ret = "init" THEN "prompt"
    ELSE IF ret = "cfg" THEN "cfg"
    ELSE "exited"

\* A cleanup that goes through its teardown whether the directory exists
\* or not.
CleanupAssumesGadget == TRUE

\* os.path.exists(gadget_path) (line 43)
CleanupFindsGadget == GadgetExists

\* if os.path.exists(gadget_path)
CleanupExists ==
    /\ mainpc = "cl_exists"
    /\ mainpc' = IF CleanupFindsGadget THEN "cl_udc" ELSE "cl_modprobe"
    /\ UNCHANGED <<session, kernel, environ, line, ret, cfgstep, out, cwd, kbdv, iov>>

\* "First disable the UDC": write "" to g1/UDC; a failure is passed over.
CleanupUDC ==
    /\ mainpc = "cl_udc"
    /\ \E ok \in BOOLEAN : UDC' = IF ok THEN 0 ELSE UDC
    /\ mainpc' = "cl_unlink"
    /\ UNCHANGED <<session, tree, lunfile, environ, line, ret, cfgstep, out, cwd, kbdv, iov>>

\* "Remove symlinks": os.unlink of every link in configs/*/.  The links in
\* gone are removed; when a link is left the unlink of it raised, and the
\* outer except prints the note and cleanup_gadget returns.
CleanupUnlink ==
    /\ mainpc = "cl_unlink"
    /\ \E gone \in SUBSET (tree \cap Links) :
          /\ tree' = tree \ gone
          /\ IF gone = tree \cap Links
             THEN /\ mainpc' = "cl_rmdir"
                  /\ UNCHANGED <<out, cfgstep>>
             ELSE /\ mainpc' = AfterCleanup
                  /\ cfgstep' = IF ret = "cfg" THEN 1 ELSE 0
                  /\ out' = <<"cleanup_gadget", "Note: Partial gadget config may exist">>
    /\ UNCHANGED <<session, UDC, lunfile, environ, cwd, kbdv, iov>>
    /\ line' = LineNext
    /\ ret' = RetNext

\* The items left after rmdir -p --ignore-fail-on-non-empty gadget_path:
\* rmdir removes an empty directory only, and the failure on a non-empty
\* one is ignored.  The attribute files of g1 belong to the directory (the
\* kernel provides them); the directories made below it keep it non-empty.
RmdirGadget(t) == IF t \cap ChildDirs = {} THEN {} ELSE t

\* "Remove the gadget directory structure" (line 58).
CleanupRmdir ==
    /\ mainpc = "cl_rmdir"
    /\ tree' = RmdirGadget(tree)
    /\ UDC' = IF tree' = {} THEN 0 ELSE UDC
    /\ lunfile' = IF tree' = {} THEN <<>> ELSE lunfile
    /\ mainpc' = "cl_modprobe"
    /\ UNCHANGED <<session, environ, line, ret, cfgstep, out, cwd, kbdv, iov>>

\* rmmod g_multi; modprobe libcomposite (lines 60-61); return.
CleanupModprobe ==
    /\ mainpc = "cl_modprobe"
    /\ mainpc' = AfterCleanup
    /\ cfgstep' = IF ret = "cfg" THEN 1 ELSE 0
    /\ UNCHANGED <<session, kernel, environ, out, cwd, kbdv, iov>>
    /\ line' = LineNext
    /\ ret' = RetNext

(***************************************************************************)
(* configure_usb_gadget (lines 151-248).  It starts with cleanup_gadget    *)
(* (ret = "cfg"), then runs the steps of CfgSteps in order.  A step that   *)
(* raises ends the call in the except clause: the message is printed and   *)
(* False is returned; nothing else is done there.                          *)
(***************************************************************************)
\* Whether step item can succeed in the current state: os.symlink raises
\* when the link is there already, os.listdir(...)[0] when no controller is
\* listed.
StepCanSucceed(item) ==
    /\ item \in Links => item \notin tree
    /\ item = "udc" => numUDC > 0

\* Where the caller continues when configure_usb_gadget returned True.
AfterConfigure == IF line.name = "emulate" THEN "emu_bind" ELSE "kbd_start"

\* What the except clause of configure_usb_gadget does to the tree
\* (lines 246-248: print and return False).
ConfigureFailedTree(t) == t

ConfigureStep ==
    /\ mainpc = "cfg"
    /\ LET item == CfgSteps[cfgstep] IN
       \E ok \in BOOLEAN :
          /\ ok => StepCanSucceed(item)
          /\ IF ok
             THEN /\ tree' = IF item \in {"chdir", "udc"} THEN tree
                             ELSE tree \cup {item}
                  /\ cwd' = IF item = "chdir" THEN GadgetPath ELSE cwd
                  /\ IF item = "udc"
                     THEN /\ UDC' \in 1..numUDC
                          \* chmod 666 /dev/hidg0 (line 241)
                          /\ usb_gadget_configured' = TRUE
                          /\ mainpc' = AfterConfigure
                          /\ cfgstep' = 0
                     ELSE /\ UDC' = UDC
                          /\ usb_gadget_configured' = usb_gadget_configured
                          /\ mainpc' = "cfg"
                          /\ cfgstep' = cfgstep + 1
                  /\ out' = out
             ELSE /\ tree' = ConfigureFailedTree(tree)
                  /\ UDC' = IF tree' = {} THEN 0 ELSE UDC
                  /\ out' = <<"configure_usb_gadget", "Error configuring USB gadget">>
                  /\ mainpc' = "prompt"
                  /\ cfgstep' = 0
                  /\ UNCHANGED <<cwd, usb_gadget_configured>>
    /\ UNCHANGED <<selected_iso, keyboard_active, emulating, lunfile, environ,
                   ret, kbdv, iov>>
    /\ line' = LineNext

(***************************************************************************)
(* cmdloop (line 373): read a command line, run its handler.               *)
(***************************************************************************)
\* input(prompt) returned a line; onecmd dispatches it.
Dispatch ==
    /\ mainpc = "prompt"
    /\ line' \in Commands
    /\ mainpc' = "onecmd"
    /\ UNCHANGED <<session, kernel, environ, ret, cfgstep, out, cwd, kbdv, iov>>

\* do_iso (lines 105-120).
DoIso ==
    /\ mainpc = "onecmd"
    /\ line.name = "iso"
    /\ IF line.arg = <<>>
       THEN /\ out' = IF selected_iso # None
                      THEN <<"iso", "Currently selected ISO">>
                      ELSE <<"iso", "No ISO file selected">>
            /\ selected_iso' = selected_iso
       ELSE IF ~PathExists(line.arg, cwd)
       THEN /\ out' = <<"iso", "File not found">>
            /\ selected_iso' = selected_iso
       ELSE /\ selected_iso' = Abspath(line.arg, cwd)
            /\ out' = <<"iso", "Selected ISO">>
    /\ mainpc' = "prompt"
    /\ UNCHANGED <<usb_gadget_configured, keyboard_active, emulating, kernel,
                   environ, ret, cfgstep, cwd, kbdv, iov>>
    /\ line' = LineNext

\* do_write (lines 122-149): dd writes to the target device only.
DoWrite ==
    /\ mainpc = "onecmd"
    /\ line.name = "write"
    /\ LET msg == IF ~isRoot THEN "This command requires root privileges"
                  ELSE IF selected_iso = None
                  THEN "No ISO file selected. Use 'iso' command first."
                  ELSE IF line.arg = <<>> THEN "No device specified"
                  ELSE IF ~PathExists(line.arg, cwd) THEN "Device not found"
                  ELSE "Write completed successfully"
       IN out' = <<"write", msg>>
    /\ mainpc' = "prompt"
    /\ UNCHANGED <<session, kernel, environ, ret, cfgstep, cwd, kbdv, iov>>
    /\ line' = LineNext

\* do_status (lines 355-361).
DoStatus ==
    /\ mainpc = "onecmd"
    /\ line.name = "status"
    /\ out' = <<"status", "Lab Tool Status">>
    /\ mainpc' = "prompt"
    /\ UNCHANGED <<session, kernel, environ, ret, cfgstep, cwd, kbdv, iov>>
    /\ line' = LineNext

(***************************************************************************)
(* do_emulate (lines 250-280).                                             *)
(***************************************************************************)
\* Mutant of NoIsoSelected: the check is missing.
NoIsoSelectedUnchecked == FALSE

\* if not self.selected_iso (line 265)
NoIsoSelected == selected_iso = None

\* An emulate start that writes the image's file name without its
\* directory.
LunStartValueBasename == <<selected_iso[Len(selected_iso)]>>

\* The value emulate start writes to lun.0/file (line 276).
LunStartValue == selected_iso

\* Mutant of EmulateStopTree: emulate stop tears the gadget down.
EmulateStopTearsDown(t) == {}

\* The items left after an emulate stop (lines 254-263 touch no item).
EmulateStopTree(t) == t

\* The body of do_emulate('stop'): lines 255-262.
StopEmulation ==
    IF emulating
    THEN \E ok \in BOOLEAN :
            /\ ok => "mass_storage" \in tree
            /\ IF ok
               THEN /\ lunfile' = <<>>
                    /\ emulating' = FALSE
                    /\ out' = <<"emulate", "ISO emulation stopped">>
               ELSE /\ out' = <<"emulate", "Error stopping emulation">>
                    /\ UNCHANGED <<lunfile, emulating>>
    ELSE UNCHANGED <<lunfile, emulating, out>>

DoEmulate ==
    /\ mainpc = "onecmd"
    /\ line.name = "emulate"
    /\ IF ~isRoot
       THEN /\ out' = <<"emulate", "This command requires root privileges">>
            /\ mainpc' = "prompt"
            /\ UNCHANGED <<lunfile, emulating, ret, tree, UDC>>
       ELSE IF line.arg = <<"stop">>
       THEN /\ StopEmulation
            /\ tree' = EmulateStopTree(tree)
            /\ UDC' = IF tree' = {} THEN 0 ELSE UDC
            /\ mainpc' = "prompt"
            /\ ret' = ret
       ELSE IF NoIsoSelected
       THEN /\ out' = <<"emulate", "No ISO file selected. Use 'iso' command first.">>
            /\ mainpc' = "prompt"
            /\ UNCHANGED <<lunfile, emulating, ret, tree, UDC>>
       ELSE IF ~usb_gadget_configured
       THEN /\ out' = <<"emulate", "Configuring USB gadget...">>
            /\ mainpc' = "cl_exists"
            /\ ret' = "cfg"
            /\ UNCHANGED <<lunfile, emulating, tree, UDC>>
       ELSE /\ mainpc' = "emu_bind"
            /\ UNCHANGED <<lunfile, emulating, ret, out, tree, UDC>>
    /\ UNCHANGED <<selected_iso, usb_gadget_configured, keyboard_active,
                   environ, cfgstep, cwd, kbdv, iov>>
    /\ line' = LineNext

\* Lines 274-280: write the image path to lun.0/file.
EmulateBind ==
    /\ mainpc = "emu_bind"
    /\ \E ok \in BOOLEAN :
          /\ ok => "mass_storage" \in tree
          /\ IF ok
             THEN /\ lunfile' = LunStartValue
                  /\ emulating' = TRUE
                  /\ out' = <<"emulate", "Emulating">>
             ELSE /\ out' = <<"emulate", "Error setting up ISO emulation">>
                  /\ UNCHANGED <<lunfile, emulating>>
    /\ mainpc' = "prompt"
    /\ UNCHANGED <<selected_iso, usb_gadget_configured, keyboard_active, tree,
                   UDC, environ, ret, cfgstep, cwd, kbdv, iov>>
    /\ line' = LineNext

\* A keyboard start that rebuilds the gadget every time.
KeyboardAlwaysConfigures == TRUE

\* A keyboard start that never activates the gadget.
KeyboardNeverConfigures == FALSE

\* if not self.usb_gadget_configured (line 343)
KeyboardNeedsConfigure == ~usb_gadget_configured

(***************************************************************************)
(* do_keyboard (lines 331-353).                                            *)
(***************************************************************************)
DoKeyboard ==
    /\ mainpc = "onecmd"
    /\ line.name = "keyboard"
    /\ IF ~isRoot
       THEN /\ out' = <<"keyboard", "This command requires root privileges">>
            /\ mainpc' = "prompt"
            /\ UNCHANGED <<keyboard_active, ret>>
       ELSE IF line.arg = <<"stop">>
       THEN IF keyboard_active
            THEN /\ keyboard_active' = FALSE
                 /\ IF keyboard_thread
                    THEN /\ mainpc' = "join"
                         /\ out' = out
                    ELSE /\ mainpc' = "prompt"
                         /\ out' = <<"keyboard", "Virtual keyboard stopped">>
                 /\ ret' = ret
            ELSE /\ mainpc' = "prompt"
                 /\ UNCHANGED <<keyboard_active, ret, out>>
       ELSE IF KeyboardNeedsConfigure
       THEN /\ out' = <<"keyboard", "Configuring USB gadget...">>
            /\ mainpc' = "cl_exists"
            /\ ret' = "cfg"
            /\ keyboard_active' = keyboard_active
       ELSE /\ mainpc' = "kbd_start"
            /\ UNCHANGED <<keyboard_active, ret, out>>
    /\ UNCHANGED <<selected_iso, usb_gadget_configured, emulating, kernel,
                   environ, cfgstep, cwd, kbdv, iov>>
    /\ line' = LineNext

\* Lines 348-353: start the capture thread unless the session is active.
KeyboardStart ==
    /\ mainpc = "kbd_start"
    /\ IF ~keyboard_active
       THEN /\ keyboard_active' = TRUE
            /\ out' = <<"keyboard", "Virtual keyboard started">>
            /\ kbpc' = "start"
       ELSE UNCHANGED <<keyboard_active, out, kbpc>>
    /\ mainpc' = "prompt"
    /\ UNCHANGED <<selected_iso, usb_gadget_configured, emulating, kernel,
                   environ, ret, cfgstep, cwd, char, tty, iov>>
    /\ line' = LineNext

\* self.keyboard_thread.join() (line 339) returns once the thread has
\* finished; then line 340, and back to the caller (cmdloop or do_exit).
KeyboardJoin ==
    /\ mainpc = "join"
    /\ kbpc = "done"
    /\ out' = <<"keyboard", "Virtual keyboard stopped">>
    /\ mainpc' = IF line.name \in {"exit", "EOF"} THEN "exit_emulate" ELSE "prompt"
    /\ UNCHANGED <<session, kernel, environ, ret, cfgstep, cwd, kbdv, iov>>
    /\ line' = LineNext

(***************************************************************************)
(* do_exit / do_EOF (lines 75-87).                                         *)
(***************************************************************************)
\* Lines 77-78: if self.keyboard_active: self.do_keyboard('stop').
DoExit ==
    /\ mainpc = "onecmd"
    /\ line.name \in {"exit", "EOF"}
    /\ IF keyboard_active /\ isRoot
       THEN /\ keyboard_active' = FALSE
            /\ IF keyboard_thread
               THEN /\ mainpc' = "join"
                    /\ out' = out
               ELSE /\ mainpc' = "exit_emulate"
                    /\ out' = <<"keyboard", "Virtual keyboard stopped">>
       ELSE /\ mainpc' = "exit_emulate"
            /\ out' = IF keyboard_active
                      THEN <<"keyboard", "This command requires root privileges">>
                      ELSE out
            /\ keyboard_active' = keyboard_active
    /\ UNCHANGED <<selected_iso, usb_gadget_configured, emulating, kernel,
                   environ, line, ret, cfgstep, cwd, kbdv, iov>>

\* Lines 79-81: if self.emulating: self.do_emulate('stop'); then
\* self.cleanup_gadget().
ExitEmulate ==
    /\ mainpc = "exit_emulate"
    /\ IF emulating /\ ~isRoot
       THEN /\ out' = <<"emulate", "This command requires root privileges">>
            /\ UNCHANGED <<lunfile, emulating>>
       ELSE StopEmulation
    /\ mainpc' = "cl_exists"
    /\ ret' = "exit"
    /\ UNCHANGED <<selected_iso, usb_gadget_configured, keyboard_active, tree,
                   UDC, environ, line, cfgstep, cwd, kbdv, iov>>

(***************************************************************************)
(* The capture thread: keyboard_thread_func (lines 282-293), send_key and  *)
(* write_hid_report (lines 295-329).  It is a daemon thread: it stops with *)
(* the process.                                                            *)
(***************************************************************************)
Running == mainpc # "exited"

ThreadAlive == kbpc \in {"start", "while", "read", "send", "finally"}

\* os.system("stty -echo -icanon") (line 284)
KbdStty ==
    /\ Running
    /\ kbpc = "start"
    /\ tty' = "raw"
    /\ kbpc' = "while"
    /\ UNCHANGED <<session, kernel, environ, mainv, char, iov>>

\* The value the loop condition tests (line 286).
LoopCondition == keyboard_active

\* while self.keyboard_active (line 286)
KbdWhile ==
    /\ Running
    /\ kbpc = "while"
    /\ kbpc' = IF LoopCondition THEN "read" ELSE "finally"
    /\ UNCHANGED <<session, kernel, environ, mainv, char, tty, iov>>

\* Whether sys.stdin.read(1) can return: it blocks until a character is
\* there (line 287).
ReadReturns == stdin # <<>>

\* char = sys.stdin.read(1) (line 287)
KbdRead ==
    /\ Running
    /\ kbpc = "read"
    /\ ReadReturns
    /\ stdin # <<>>
    /\ char' = Head(stdin)
    /\ stdin' = Tail(stdin)
    /\ kbpc' = "send"
    /\ UNCHANGED <<session, kernel, environ, mainv, tty, typed, issued, hidg0,
                   hidfails>>

\* sys.stdin.read(1) raises: except prints "Keyboard error", then finally.
KbdReadError ==
    /\ Running
    /\ kbpc = "read"
    /\ kbpc' = "finally"
    /\ UNCHANGED <<session, kernel, environ, mainv, char, tty, iov>>

\* /dev/hidg0 is there to be opened: the HID function is bound.
DeviceReady == Bound /\ "hid" \in tree

\* The elements of seq whose index is in keep, in order.
RECURSIVE Select(_, _, _)
Select(seq, keep, i) ==
    IF i > Len(seq) THEN <<>>
    ELSE (IF i \in keep THEN <<seq[i]>> ELSE <<>>) \o Select(seq, keep, i + 1)

\* A write_hid_report whose exception leaves the capture loop.
AfterSendAborts(failed) == IF failed > 0 THEN "finally" ELSE "while"

\* Where the capture thread continues after send_key: write_hid_report
\* catches every exception of its open and write (lines 328-329), so
\* send_key returns and the loop tests its condition again, whatever number
\* of writes failed.
AfterSend(failed) == "while"

\* self.send_key(char) (line 289): every report of SendKeyReports is
\* encoded and written by write_hid_report, which prints and passes over a
\* failing open or write (lines 325-329).  done is the set of writes that
\* reach the device.
KbdSend ==
    /\ Running
    /\ kbpc = "send"
    /\ LET reports == SendKeyReports(char)
           bytes == [i \in 1..Len(reports) |-> Encode(reports[i])]
       IN \E done \in SUBSET (1..Len(reports)) :
             LET failed == Len(reports) - Cardinality(done) IN
             /\ ~DeviceReady => done = {}
             /\ DeviceReady => hidfails + failed <= MaxHidFail
             /\ issued' = issued \o bytes
             /\ hidg0' = hidg0 \o Select(bytes, done, 1)
             /\ hidfails' = IF DeviceReady THEN hidfails + failed ELSE hidfails
    /\ char' = -1
    /\ kbpc' = AfterSend(Len(issued') - Len(issued) - (Len(hidg0') - Len(hidg0)))
    /\ UNCHANGED <<session, kernel, environ, mainv, tty, stdin, typed>>

\* finally: os.system("stty echo icanon") (line 293)
KbdFinally ==
    /\ Running
    /\ kbpc = "finally"
    /\ tty' = "cooked"
    /\ kbpc' = "done"
    /\ UNCHANGED <<session, kernel, environ, mainv, char, iov>>

(***************************************************************************)
(* The operator's terminal.  Both the capture thread (sys.stdin.read) and  *)
(* the foreground cmdloop (input) read it.                                 *)
(***************************************************************************)
\* The operator types the next character of the script for the host, while
\* a capture thread is there to take it.  (What is typed as command lines
\* is the choice Dispatch makes.)
TypeChar ==
    /\ Running
    /\ ThreadAlive
    /\ typed < Len(script)
    /\ stdin' = Append(stdin, script[typed + 1])
    /\ typed' = typed + 1
    /\ UNCHANGED <<session, kernel, environ, mainv, kbdv, issued, hidg0, hidfails>>

\* Whether the foreground thread is reading the terminal: cmdloop is in
\* input(self.prompt) whenever no handler runs (line 373).
CmdloopReading == mainpc = "prompt"

\* input() of cmdloop takes a pending character into its command line.
CmdloopInput ==
    /\ CmdloopReading
    /\ stdin # <<>>
    /\ stdin' = Tail(stdin)
    /\ UNCHANGED <<session, kernel, environ, mainv, kbdv, typed, issued, hidg0,
                   hidfails>>

(***************************************************************************)
(* Specifications.                                                         *)
(***************************************************************************)
MainStep ==
    \/ Main
    \/ CleanupExists
    \/ CleanupUDC
    \/ CleanupUnlink
    \/ CleanupRmdir
    \/ CleanupModprobe
    \/ ConfigureStep
    \/ DoIso
    \/ DoWrite
    \/ DoStatus
    \/ DoEmulate
    \/ EmulateBind
    \/ DoKeyboard
    \/ KeyboardStart
    \/ KeyboardJoin
    \/ DoExit
    \/ ExitEmulate

ThreadStep ==
    \/ KbdStty
    \/ KbdWhile
    \/ KbdRead
    \/ KbdSend
    \/ KbdFinally

Next ==
    \/ MainStep
    \/ ThreadStep
    \/ KbdReadError
    \/ Dispatch
    \/ TypeChar
    \/ CmdloopInput

Spec == Init /\ [][Next]_vars

\* The scheduler runs a thread that can take a step; the operator and the
\* kernel are under no obligation (no command, no keystroke, no read error
\* has to come).
FairSpec == Spec /\ WF_vars(MainStep) /\ WF_vars(ThreadStep)

\* The state right after a successful keyboard start on a clean system with
\* one controller: the capture thread waits in sys.stdin.read(1), cmdloop
\* is back at the prompt.  scr is what the operator is going to type.
SessionActive(scr) ==
    /\ selected_iso = None
    /\ usb_gadget_configured = TRUE
    /\ keyboard_active = TRUE
    /\ emulating = FALSE
    /\ isRoot = TRUE
    /\ numUDC = 1
    /\ script = scr
    /\ tree = FullTree
    /\ UDC = 1
    /\ lunfile = <<>>
    /\ mainpc = "prompt"
    /\ line = NoLine
    /\ ret = ""
    /\ cfgstep = 0
    /\ out = <<"keyboard", "Virtual keyboard started">>
    /\ cwd = GadgetPath
    /\ kbpc = "read"
    /\ char = -1
    /\ tty = "raw"
    /\ stdin = <<>>
    /\ typed = 0
    /\ issued = <<>>
    /\ hidg0 = <<>>
    /\ hidfails = 0

\* The encoder applied to every character: the operator types one
\* character, or an uppercase ASCII letter followed by its lowercase
\* counterpart, and the capture thread sends what it reads.
EncScripts ==
    {<<c>> : c \in 0..MaxChar} \cup {<<c, c + 32>> : c \in 65..90}

EncInit == \E scr \in EncScripts : SessionActive(scr)

EncNext ==
    \/ TypeChar
    \/ KbdWhile
    \/ KbdRead
    \/ KbdSend

EncSpec == EncInit /\ [][EncNext]_vars

\* The operator types "Hi 1\n" for the host while the session is active;
\* no command is entered meanwhile.
TypingInit == SessionActive(HiScript)

TypingNext ==
    \/ TypeChar
    \/ KbdWhile
    \/ KbdRead
    \/ KbdSend
    \/ CmdloopInput

TypingSpec == TypingInit /\ [][TypingNext]_vars

(***************************************************************************)
(* Properties.                                                             *)
(***************************************************************************)

\* C1: whenever configure_usb_gadget returns, whatever step failed, the
\* gadget is Absent or Bound: a failed activation has torn down what it
\* built.  (The step on which the call returns is the one that leaves
\* mainpc = "cfg"; a second call in a row is one more such step.)
C1_ActivateLeavesAbsentOrBound ==
    [][(mainpc = "cfg" /\ mainpc' # "cfg") => (Absent' \/ Bound')]_vars

\* C2: once do_exit / do_EOF has completed in a session (the tool ran as
\* root), the g1 tree is gone.
C2_ExitRemovesGadget ==
    (mainpc = "exited" /\ isRoot) => Absent

\* C3: once keyboard stop waits for the capture thread (join), it
\* eventually returns, whether or not another character arrives.
C3_StopReturns ==
    (mainpc = "join") ~> (mainpc # "join")

(***************************************************************************)
(* The encoder (EncSpec).  EncFirst is the character typed first; once     *)
(* EncSentAll holds every typed character has been read and sent, so       *)
(* issued holds the writes of send_key for the script, in order.           *)
(***************************************************************************)
EncFirst == script[1]

EncSentAll == typed = Len(script) /\ stdin = <<>> /\ kbpc # "send"

\* One character was typed and sent.
EncSentOne == Len(script) = 1 /\ EncSentAll

\* An uppercase ASCII letter and then its lowercase counterpart were typed
\* and sent.
EncSentPair == Len(script) = 2 /\ EncSentAll

\* Bit b (a power of two) is set in byte m.
HasBit(m, b) == (m \div b) % 2 = 1

\* The characters the claims call supported and unsupported.
IsSupported(c) == c \in (97..122) \cup (65..90) \cup (48..57) \cup {10, 32}

IsUnsupported(c) == ~IsAlpha(c) /\ c \notin 48..57 /\ c \notin {10, 32}

\* The eight zero bytes of a release report.
ZeroBytes == <<0, 0, 0, 0, 0, 0, 0, 0>>

\* C4 (as claimed): for an unsupported character send_key writes nothing.
C4_UnsupportedWritesNothing ==
    (EncSentOne /\ IsUnsupported(EncFirst)) => (issued = <<>> /\ hidg0 = <<>>)

\* C4 (amended): for an unsupported character send_key issues no key-down
\* report; its only write is the all-zero release report, and that is all
\* the device receives.
C4_UnsupportedWritesReleaseOnly ==
    (EncSentOne /\ IsUnsupported(EncFirst)) =>
        /\ issued = <<ZeroBytes>>
        /\ hidfails = 0 => hidg0 = <<ZeroBytes>>
        /\ hidfails > 0 => hidg0 = <<>>

C4_Witness ==
    EncSentOne /\ EncFirst = 63 /\ hidfails = 0 /\ hidg0 = <<ZeroBytes>>

\* The USB HID usage of the numeric-row key of digit character c:
\* '1'..'9' are 30..38, '0' is 39.
HidDigitUsage(c) == IF c = 48 THEN 39 ELSE 30 + (c - 49)

\* C5: for a digit the key-down report carries keycode char_code - 19, and
\* that is the key's usage in the USB HID numeric row.
C5_DigitKeycodeIsNumericRow ==
    (EncSentOne /\ EncFirst \in 48..57) =>
        /\ issued[1][3] = EncFirst - 19
        /\ issued[1][3] = HidDigitUsage(EncFirst)

\* C6 (as claimed): for an uppercase letter the key-down report has the
\* left-shift bit 0x02 set and the keycode of the lowercase letter's report.
C6_UpperSetsLeftShift ==
    EncSentPair =>
        /\ HasBit(issued[1][1], 2)
        /\ issued[1][3] = issued[3][3]

\* C6 (amended): for an uppercase letter A-Z the key-down report has the
\* right-shift bit 0x20 set in the modifier byte (modifier = 0x20, so the
\* left-shift bit 0x02 is clear) and carries the same keycode as the
\* key-down report of the corresponding lowercase letter, whose modifier
\* byte is zero.
C6_UpperSetsRightShift ==
    EncSentPair =>
        /\ HasBit(issued[1][1], 32)
        /\ ~HasBit(issued[1][1], 2)
        /\ issued[1][3] = issued[3][3]
        /\ issued[3][1] = 0

C6_Witness ==
    EncSentPair /\ script = <<65, 97>> /\ issued[1][3] = 4 /\ issued[1][1] = 32

\* C7: for a supported character send_key issues exactly two writes, each
\* of eight bytes: a key-down report (a keycode in byte 3, only the
\* modifier beside it) and then the all-zero release report; the device
\* receives exactly these when no write fails.
C7_SupportedWritesTwoReports ==
    (EncSentOne /\ IsSupported(EncFirst)) =>
        /\ Len(issued) = 2
        /\ Len(issued[1]) = 8
        /\ Len(issued[2]) = 8
        /\ issued[1][3] > 0
        /\ \A i \in {2, 4, 5, 6, 7, 8} : issued[1][i] = 0
        /\ issued[2] = ZeroBytes
        /\ hidfails = 0 => hidg0 = issued

C7_Witness ==
    EncSentOne /\ EncFirst = 122 /\ hidfails = 0 /\ Len(hidg0) = 2
        /\ hidg0[1][3] = 29

(***************************************************************************)
(* Typing "Hi 1\n" (TypingSpec).                                           *)
(***************************************************************************)
\* Either shift bit is set in modifier byte m.
IsShifted(m) == HasBit(m, 2) \/ HasBit(m, 32)

\* The USB HID usages of h, i, space, 1 and Enter.
HiUsages == <<11, 12, 44, 30, 40>>

\* C8: once the operator has typed "Hi 1\n" with the session active and
\* everything typed has been consumed, the device has received exactly ten
\* reports: shift+h, release, i, release, space, release, 1, release,
\* Enter, release (no write having failed).
C8_TypingHiGivesTenReports ==
    (/\ script = HiScript
     /\ typed = Len(HiScript)
     /\ stdin = <<>>
     /\ kbpc = "read"
     /\ keyboard_active
     /\ hidfails = 0)
    => /\ Len(hidg0) = 10
       /\ \A k \in 1..5 : /\ hidg0[2 * k - 1][3] = HiUsages[k]
                          /\ hidg0[2 * k] = ZeroBytes
       /\ IsShifted(hidg0[1][1])
       /\ \A k \in 2..5 : hidg0[2 * k - 1][1] = 0

(***************************************************************************)
(* The command handlers (Spec).                                            *)
(***************************************************************************)
NoIsoMessage == <<"emulate", "No ISO file selected. Use 'iso' command first.">>

\* The foreground thread runs do_emulate for a start request in this step.
EmulateStartStep ==
    /\ mainpc = "onecmd"
    /\ line.name = "emulate"
    /\ line.arg # <<"stop">>
    /\ mainpc' # mainpc

\* C9: emulate start with no image selected prints the "no image selected"
\* message and returns to the prompt; the gadget tree, the UDC, the LUN
\* binding, usb_gadget_configured, emulating and the keyboard session are
\* what they were.
C9_EmulateStartWithoutImage ==
    [][(EmulateStartStep /\ selected_iso = None) =>
          /\ out' = NoIsoMessage
          /\ mainpc' = "prompt"
          /\ UNCHANGED <<tree, UDC, lunfile, usb_gadget_configured,
                         emulating, selected_iso, keyboard_active, kbpc, cwd>>]_vars

C9_Witness ==
    /\ mainpc = "prompt"
    /\ out = NoIsoMessage
    /\ selected_iso = None
    /\ Absent
    /\ ~usb_gadget_configured
    /\ ~emulating

\* The foreground thread completes an emulate start in this step: the
\* write to lun.0/file succeeded.
EmulateStarted ==
    /\ mainpc = "emu_bind"
    /\ out' = <<"emulate", "Emulating">>

\* The foreground thread completes an emulate stop command in this step,
\* with emulation active: the write to lun.0/file succeeded.
EmulateStopped ==
    /\ mainpc = "onecmd"
    /\ line = [name |-> "emulate", arg |-> <<"stop">>]
    /\ emulating
    /\ out' = <<"emulate", "ISO emulation stopped">>
    /\ mainpc' # mainpc

\* C10: a succeeding emulate start leaves the gadget Bound, the LUN file
\* equal to the selected image's absolute path (an existing file) and
\* emulating true; a following succeeding emulate stop empties the LUN
\* file and clears emulating, the gadget stays Bound with its tree and UDC
\* as they were, and the keyboard session is untouched.
C10_EmulateStartStop ==
    [][/\ EmulateStarted =>
            /\ Bound'
            /\ lunfile' = selected_iso
            /\ Head(lunfile') = "/"
            /\ lunfile' \in ExistingFiles
            /\ emulating'
       /\ EmulateStopped =>
            /\ Bound
            /\ Bound'
            /\ lunfile' = <<>>
            /\ ~emulating'
            /\ UNCHANGED <<tree, UDC, usb_gadget_configured, keyboard_active,
                           kbpc, selected_iso>>]_vars

C10_Witness ==
    /\ mainpc = "prompt"
    /\ out = <<"emulate", "ISO emulation stopped">>
    /\ selected_iso = <<"/", "abs", "path", "disk.img">>
    /\ Bound
    /\ lunfile = <<>>
    /\ ~emulating
    /\ keyboard_active

(***************************************************************************)
(* do_keyboard without an image (C11).                                     *)
(***************************************************************************)
\* The handling of a keyboard command other than "keyboard stop", run as
\* root: the step of do_keyboard that decides between activating the
\* gadget and starting the session.
KeyboardStartRequest ==
    /\ mainpc = "onecmd"
    /\ mainpc' # mainpc
    /\ line.name = "keyboard"
    /\ line.arg # <<"stop">>
    /\ isRoot

\* Lines 348-353 of do_keyboard taken with no image selected.
KeyboardStartStep ==
    /\ mainpc = "kbd_start"
    /\ mainpc' # mainpc
    /\ selected_iso = None

\* C11 as stated: with no image ever selected, keyboard start activates
\* the gadget first when it is not Bound, goes on without touching the
\* kernel tree when it is Bound, and its start step leaves keyboard_active
\* true and the gadget Bound.
C11_KeyboardStartKeepsBoundGadget ==
    [][/\ (KeyboardStartRequest /\ selected_iso = None /\ ~Bound) =>
            /\ mainpc' = "cl_exists"
            /\ ret' = "cfg"
       /\ (KeyboardStartRequest /\ selected_iso = None /\ Bound) =>
            /\ mainpc' = "kbd_start"
            /\ UNCHANGED kernel
       /\ KeyboardStartStep =>
            /\ keyboard_active'
            /\ Bound']_vars

\* C11, amended: with no image ever selected, keyboard start activates the
\* gadget first when this session has not activated it yet
\* (usb_gadget_configured false, which covers every gadget that is not
\* Bound and also a gadget an earlier run left bound), goes on without
\* touching the kernel tree when the session has activated it (the gadget
\* is then Bound), and its start step leaves keyboard_active true and the
\* gadget Bound.
C11_KeyboardStartKeepsSessionGadget ==
    [][/\ (KeyboardStartRequest /\ selected_iso = None /\ ~Bound) =>
            ~usb_gadget_configured
       /\ (KeyboardStartRequest /\ selected_iso = None
              /\ ~usb_gadget_configured) =>
            /\ mainpc' = "cl_exists"
            /\ ret' = "cfg"
            /\ ~keyboard_active'
       /\ (KeyboardStartRequest /\ selected_iso = None
              /\ usb_gadget_configured) =>
            /\ Bound
            /\ mainpc' = "kbd_start"
            /\ UNCHANGED kernel
       /\ KeyboardStartStep =>
            /\ keyboard_active'
            /\ Bound'
            /\ UNCHANGED <<kernel, selected_iso>>]_vars

C11_Witness ==
    /\ mainpc = "prompt"
    /\ out = <<"keyboard", "Virtual keyboard started">>
    /\ selected_iso = None
    /\ keyboard_active
    /\ usb_gadget_configured
    /\ Bound
    /\ kbpc = "start"

(***************************************************************************)
(* The keyboard session and the gadget (C12).                              *)
(***************************************************************************)
\* C12: in every reachable state, keyboard_active implies that the gadget
\* is Bound, whatever commands have run and whichever kernel operations
\* have failed.
C12_KeyboardActiveImpliesBound == keyboard_active => Bound

\* A keyboard session that has outlived a failed emulate start and a
\* failed HID write.
C12_Witness ==
    /\ keyboard_active
    /\ Bound
    /\ mainpc = "prompt"
    /\ out = <<"emulate", "Error setting up ISO emulation">>
    /\ hidfails > 0
    /\ kbpc = "read"

(***************************************************************************)
(* The LUN backing file and the gadget (C13).                              *)
(***************************************************************************)
\* C13: the LUN backing-file binding is non-empty only while the gadget is
\* Bound: it is never written, and never remains set, in a state where the
\* gadget is not Bound, a failing unbind during exit included.
C13_LunSetOnlyWhileBound == lunfile # <<>> => Bound

(***************************************************************************)
(* The gadget's life cycle (C14).                                          *)
(***************************************************************************)
\* The main thread is inside cleanup_gadget's teardown.
InTeardown == mainpc \in {"cl_udc", "cl_unlink", "cl_rmdir", "cl_modprobe"}

\* The state of the gadget: Absent without the gadget directory, Bound with
\* a UDC attached, TearingDown while cleanup_gadget works on an unbound
\* tree, Configuring for any other unbound tree.
GadgetState ==
    IF Absent THEN "Absent"
    ELSE IF Bound THEN "Bound"
    ELSE IF InTeardown THEN "TearingDown"
    ELSE "Configuring"

LifeCycle ==
    { <<"Absent", "Configuring">>, <<"Configuring", "Bound">>,
      <<"Bound", "TearingDown">>, <<"TearingDown", "Absent">> }

\* C14: the gadget state changes only along Absent -> Configuring -> Bound
\* -> TearingDown -> Absent: a Bound gadget is not reconfigured without
\* passing through Absent, Configuring never goes to TearingDown, and no
\* gadget is left in Configuring once activation has returned.
C14_GadgetLifeCycle ==
    /\ [][GadgetState' # GadgetState =>
             <<GadgetState, GadgetState'>> \in LifeCycle]_vars
    /\ [](mainpc = "prompt" => GadgetState # "Configuring")

(***************************************************************************)
(* A failing HID write inside the capture loop (C15).                      *)
(***************************************************************************)
\* A send_key step in which at least one write_hid_report did not reach
\* /dev/hidg0.
HidWriteFailed ==
    /\ kbpc = "send"
    /\ kbpc' # kbpc
    /\ Len(issued') - Len(issued) > Len(hidg0') - Len(hidg0)

\* The command being handled is an explicit keyboard stop or the exit of
\* the process.
StopOrExitCommand ==
    /\ mainpc = "onecmd"
    /\ \/ line.name = "keyboard" /\ line.arg = <<"stop">>
       \/ line.name \in {"exit", "EOF"}

\* C15: a failed HID write does not end the capture loop and does not
\* change keyboard_active: the thread returns to the loop condition and,
\* the session still being active, goes on to read the next character;
\* keyboard_active is cleared by an explicit keyboard stop or by exit only.
C15_FailedWriteKeepsLoop ==
    [][/\ HidWriteFailed =>
            /\ kbpc' = "while"
            /\ keyboard_active' = keyboard_active
            /\ UNCHANGED <<mainpc, tty>>
       /\ (kbpc = "while" /\ kbpc' # kbpc /\ keyboard_active) =>
            kbpc' = "read"
       /\ (keyboard_active /\ ~keyboard_active') => StopOrExitCommand]_vars

\* The key-down report of the first character was lost; its release and
\* the report of the next character reached the device, and the loop is
\* reading again.
C15_Witness ==
    /\ keyboard_active
    /\ hidfails = 1
    /\ Len(issued) = 3
    /\ issued[1] # ZeroBytes
    /\ hidg0 = <<ZeroBytes, ZeroBytes>>
    /\ kbpc = "read"

(***************************************************************************)
(* A process that is not root (C16).                                       *)
(***************************************************************************)
\* C16: when the process does not run as root, no step changes the session
\* state or the kernel gadget (tree, UDC, LUN file), no HID report is
\* written and no capture thread is started: the only step such a process
\* takes is main's refusal, before the session is constructed, so that no
\* command handler, no session construction and no exit path ever runs.
C16_NotRootTouchesNothing ==
    [][~isRoot =>
          /\ UNCHANGED <<session, kernel, cwd, kbpc, tty, issued, hidg0>>
          /\ mainpc = "main"
          /\ mainpc' = "exited"
          /\ out' = <<"main", "This tool must be run as root">>]_vars

\* A process that is not root has ended and the bound gadget an earlier
\* run left behind is as it was.
C16_Witness ==
    /\ ~isRoot
    /\ mainpc = "exited"
    /\ out = <<"main", "This tool must be run as root">>
    /\ tree = FullTree
    /\ UDC = 1
    /\ session = <<None, FALSE, FALSE, FALSE>>

(***************************************************************************)
(* cleanup_gadget without a gadget (C17).                                  *)
(***************************************************************************)
\* cleanup_gadget's first step, taken when no gadget directory exists.
CleanupOfNothing ==
    /\ mainpc = "cl_exists"
    /\ mainpc' # mainpc
    /\ Absent

\* cleanup_gadget's last step (rmmod, modprobe and the return), reached
\* with no gadget directory.
CleanupReturnOfNothing ==
    /\ mainpc = "cl_modprobe"
    /\ mainpc' # mainpc
    /\ Absent

\* C17: cleanup_gadget called when no gadget exists completes without
\* error and leaves the gadget Absent: it goes from its existence test
\* straight to the module reload, with no UDC write, no symlink removal
\* and no directory removal, prints nothing, changes neither the kernel
\* tree nor the session, and returns to its caller; this is so for every
\* call, the first and any later one alike.
C17_CleanupOfNothing ==
    [][/\ CleanupOfNothing =>
            /\ mainpc' = "cl_modprobe"
            /\ Absent'
            /\ UNCHANGED <<kernel, session, out, ret, cwd>>
       /\ CleanupReturnOfNothing =>
            /\ mainpc' = AfterCleanup
            /\ Absent'
            /\ UNCHANGED <<kernel, session, out, cwd>>]_vars

\* The second call in a row on a system without a gadget: the one of
\* __init__ has returned, the one of configure_usb_gadget has skipped the
\* teardown.
C17_Witness ==
    /\ mainpc = "cl_modprobe"
    /\ ret = "cfg"
    /\ Absent
    /\ UDC = 0
    /\ lunfile = <<>>
    /\ out = <<"emulate", "Configuring USB gadget...">>

(***************************************************************************)
(* The order of activation (C18).                                          *)
(***************************************************************************)
\* What a gadget needs before it may be bound: the identifiers, the
\* strings, the HID function with its attributes and report descriptor,
\* the mass-storage function, the configuration and both function links.
GadgetParts ==
    { "g1", "ids", "strings", "strings_attrs", "hid", "hid_attrs",
      "report_desc", "mass_storage", "config", "config_attrs", "link_hid",
      "link_ms" }

\* A step of configure_usb_gadget that attaches a controller or sets the
\* session's flag.
ConfigureBinds ==
    /\ mainpc = "cfg"
    /\ \/ UDC' # UDC
       \/ usb_gadget_configured' # usb_gadget_configured

\* C18: configure_usb_gadget advances from one step to the next only when
\* the step succeeded, and writes the UDC only as its last step, with the
\* whole tree in place; usb_gadget_configured changes only there, to true,
\* together with the succeeding UDC write.  With an empty UDC list the
\* flag stays false for ever, and no emulation and no keyboard session
\* starts unless the flag is true and the gadget Bound.
C18_BindAfterAllSteps ==
    /\ [][/\ (mainpc = "cfg" /\ cfgstep' > cfgstep) =>
               /\ cfgstep' = cfgstep + 1
               /\ CfgSteps[cfgstep] # "udc"
               /\ \/ CfgSteps[cfgstep] \in tree'
                  \/ CfgSteps[cfgstep] = "chdir" /\ cwd' = GadgetPath
          /\ ConfigureBinds =>
               /\ cfgstep = Len(CfgSteps)
               /\ CfgSteps[cfgstep] = "udc"
               /\ GadgetParts \subseteq tree
               /\ cwd = GadgetPath
               /\ numUDC > 0
               /\ UDC' \in 1..numUDC
               /\ usb_gadget_configured'
               /\ Bound'
          /\ usb_gadget_configured' # usb_gadget_configured =>
               ConfigureBinds
          /\ \/ emulating' /\ ~emulating
             \/ keyboard_active' /\ ~keyboard_active
             => /\ usb_gadget_configured
                /\ Bound]_vars
    /\ [](numUDC = 0 =>
             /\ ~usb_gadget_configured
             /\ ~emulating
             /\ ~keyboard_active
             /\ kbpc = "none"
             /\ lunfile = <<>>)

\* Activation has just bound the controller, on a system without a gadget
\* before: the whole tree is there and the session's flag is set.
C18_Witness ==
    /\ mainpc = "kbd_start"
    /\ usb_gadget_configured
    /\ Bound
    /\ tree = FullTree
    /\ cwd = GadgetPath
    /\ ~keyboard_active
    /\ ~emulating

\* Activation has failed at its last step for want of a controller.
C18_EmptyListWitness ==
    /\ mainpc = "prompt"
    /\ numUDC = 0
    /\ out = <<"configure_usb_gadget", "Error configuring USB gadget">>
    /\ tree = FullTree
    /\ ~usb_gadget_configured
    /\ ~Bound

(***************************************************************************)
(* The length of what is written to /dev/hidg0 (C19).                      *)
(***************************************************************************)
\* The length of a boot-keyboard report (report_length, line 188).
ReportLength == 8

\* C19: every write the capture loop makes to /dev/hidg0 is exactly 8
\* bytes long, whatever character was read, letters outside a-z and A-Z
\* included.
C19_EveryWriteIsEightBytes ==
    \A i \in 1..Len(issued) : Len(issued[i]) = ReportLength

(***************************************************************************)
(* The emulated image and the selected image (C20).                        *)
(***************************************************************************)
\* C20 as stated: in every reachable state where emulating is true, the
\* LUN backing file equals selected_iso.
C20_EmulatingServesSelected == emulating => lunfile = selected_iso

\* The handling of an iso command.
IsoCommand ==
    /\ mainpc = "onecmd"
    /\ line.name = "iso"

\* C20, amended: in every reachable state where emulating is true, the LUN
\* backing file is the path that the last succeeding emulate start wrote,
\* selected_iso as it was then: a non-empty absolute path of an existing
\* image.  It equals selected_iso when emulation starts,
\* no step changes it while emulation goes on, and it differs from
\* selected_iso only once an iso command has selected another image.
C20_EmulatingServesImageOfStart ==
    /\ [](emulating =>
             /\ lunfile # <<>>
             /\ Head(lunfile) = "/"
             /\ lunfile \in ExistingFiles
             /\ selected_iso # None)
    /\ [][/\ (emulating' /\ ~emulating) => lunfile' = selected_iso'
          /\ (emulating' /\ emulating /\ lunfile' # lunfile) =>
               /\ mainpc = "emu_bind"
               /\ lunfile' = selected_iso'
          /\ (emulating' /\ lunfile' # selected_iso'
                /\ lunfile = selected_iso) =>
               /\ IsoCommand
               /\ lunfile' = lunfile
               /\ emulating]_vars

\* Another image was selected while the first one is being emulated.
C20_Witness ==
    /\ emulating
    /\ Bound
    /\ lunfile = <<"/", "abs", "path", "disk.img">>
    /\ selected_iso = <<"/", "srv", "other.iso">>
    /\ mainpc = "prompt"

=============================================================================
